---- MODULE Spec2Model ----
(***************************************************************************)
(* A model of the parquet golden-file generator (src/main.cpp).            *)
(*                                                                         *)
(* The program seeds one global random engine, generates one Arrow array   *)
(* per logical type (main.cpp:66-85), then walks a fixed table of 22       *)
(* column specifications (main.cpp:88-121) and calls write_parquet on each *)
(* (main.cpp:124-126).  write_parquet (main.cpp:33-60) builds a one-column *)
(* table, creates data/<encoding>/, builds the writer properties, opens    *)
(* the output stream, writes the table and prints "Wrote <path>".          *)
(*                                                                         *)
(* What is outside src/ is modelled by its contract only:                  *)
(*  - std::mt19937 is a deterministic engine; the model keeps its          *)
(*    interface (a state, a next output per call) on 16-bit words, since   *)
(*    no property below depends on the Mersenne twister's arithmetic;      *)
(*  - the file system is a directory tree: data/, data/<encoding>/ and the *)
(*    files under them;                                                    *)
(*  - FileOutputStream::Open and parquet::arrow::WriteTable return a       *)
(*    Status: they succeed or fail, and the file written is a function of  *)
(*    the table, the properties and the row-group size;                    *)
(*  - standard output is the sequence of lines inserted into std::cout.    *)
(***************************************************************************)
EXTENDS Integers, Sequences, FiniteSets, TLC

VARIABLES
    pc,         \* where main is: "gen", "call", "mkdir", "props", "open",
                \* "write", "print", "done" (returned 0), "aborted"
    gi,         \* the next generation statement of main (1..5, 6 = all done)
    si,         \* the index in specs of the specification being processed
    rng,        \* the global engine: [state, count of outputs drawn]
    drawlog,    \* history: who drew which outputs, one segment per generate_array
    base_data,  \* main's map from type name to generated array
    table,      \* write_parquet's local table
    filename,   \* write_parquet's local filename
    props,      \* write_parquet's local writer properties
    outfile,    \* write_parquet's local output stream: the path open, or NoStream
    data_dir,   \* file system: whether the directory data/ exists
    dirs,       \* file system: the directories that exist under data/
    files,      \* file system: path -> content, for the files that exist
    out,        \* standard output: the lines written so far
    exit_code,  \* "running", "0", or "SIGABRT" (std::terminate)
    oplog,      \* history: the file-system and stream calls of this run, in order
    passed,     \* history: the array handed to write_parquet for each specification
    prev        \* history: what the previous complete run left (NoRun before it)

vars == <<pc, gi, si, rng, drawlog, base_data, table, filename, props, outfile,
          data_dir, dirs, files, out, exit_code, oplog, passed, prev>>

----------------------------------------------------------------------------
(* Bounds *)

\* Rows generated per column.  The program generates 1000 (main.cpp:63); the
\* model generates MaxRows, every array operation being uniform in the count.
MaxRows == 3

----------------------------------------------------------------------------
(* The random engine and the value lambdas (main.cpp:13, 67-85) *)

\* history value: no complete run before this one
NoRun == [kind |-> "none"]

\* mutant: the engine seeded from the environment (a clock, random_device),
\* so that a later process does not get the seed of the first
SeedFromEnvironment == IF prev = NoRun THEN 42 ELSE 43

\* main.cpp:13: std::mt19937 rng(42)
Seed == 42

\* rng.max() - rng.min(), on the model's 16-bit engine
RngRange == 65535

\* one call rng(): the engine steps and returns its output
Draw(g) ==
    LET s == (25173 * g.state + 13849) % 65536
    IN  [val |-> s, g |-> [state |-> s, count |-> g.count + 1]]

\* std::uniform_int_distribution<>(a, b)(rng): libstdc++'s downscaling with
\* rejection, so the number of engine outputs consumed depends on their values
RECURSIVE uniform_int_distribution(_, _, _)
uniform_int_distribution(a, b, g) ==
    LET uerange == b - a + 1
        scaling == RngRange \div uerange
        past    == uerange * scaling
        d       == Draw(g)
    IN  IF d.val >= past
        THEN uniform_int_distribution(a, b, d.g)
        ELSE [val |-> (d.val \div scaling) + a, g |-> d.g]

\* main.cpp:68
Int32Value(g) == uniform_int_distribution(0, 10000, g)

\* main.cpp:70: uniform_real_distribution<float>(0.f, 100.f) takes one engine
\* output r and returns r / 2^w * 100; the model keeps the numerator r * 100
FloatValue(g) ==
    LET d == Draw(g) IN [val |-> d.val * 100, g |-> d.g]

\* main.cpp:72: static_cast<int64_t>(rng()) << 8
Int64Value(g) ==
    LET d == Draw(g) IN [val |-> d.val * 256, g |-> d.g]

\* main.cpp:74-78: a length in [5,10], then one letter repeated
StringValue(g) ==
    LET len == uniform_int_distribution(5, 10, g)
        d   == Draw(len.g)
    IN  [val |-> [i \in 1..len.val |-> 97 + (d.val % 26)], g |-> d.g]

\* main.cpp:83: for (i < len) bytes[i] = rng() % 256
RECURSIVE FillBytes(_, _, _)
FillBytes(len, bytes, g) ==
    IF Len(bytes) = len
    THEN [val |-> bytes, g |-> g]
    ELSE LET d == Draw(g)
         IN  FillBytes(len, Append(bytes, d.val % 256), d.g)

\* main.cpp:80-85
BinaryValue(g) ==
    LET len == uniform_int_distribution(3, 15, g)
    IN  FillBytes(len.val, <<>>, len.g)

\* the call func() of generate_array, by the lambda passed
Call(func, g) ==
    CASE func = "int32"  -> Int32Value(g)
      [] func = "float"  -> FloatValue(g)
      [] func = "int64"  -> Int64Value(g)
      [] func = "string" -> StringValue(g)
      [] func = "binary" -> BinaryValue(g)

\* mutant: the string column built with the binary builder
BuilderTypeStringAsBinary(Builder) ==
    CASE Builder = "Int32Builder"  -> "int32"
      [] Builder = "FloatBuilder"  -> "float32"
      [] Builder = "Int64Builder"  -> "int64"
      [] Builder = "StringBuilder" -> "binary"
      [] Builder = "BinaryBuilder" -> "binary"

\* main.cpp:67-79: the Arrow type of the array each builder finishes
BuilderType(Builder) ==
    CASE Builder = "Int32Builder"  -> "int32"
      [] Builder = "FloatBuilder"  -> "float32"
      [] Builder = "Int64Builder"  -> "int64"
      [] Builder = "StringBuilder" -> "utf8"
      [] Builder = "BinaryBuilder" -> "binary"

\* main.cpp:18-20: the loop of generate_array
RECURSIVE AppendLoop(_, _, _, _)
AppendLoop(func, i, values, g) ==
    IF i = 0
    THEN [val |-> values, g |-> g]
    ELSE LET v == Call(func, g)
         IN  AppendLoop(func, i - 1, Append(values, v.val), v.g)

\* main.cpp:15-24: generate_array<Builder>(func, num_rows); id names the
\* array object the returned shared_ptr points to
generate_array(Builder, func, num_rows, id, g) ==
    LET r == AppendLoop(func, num_rows, <<>>, g)
    IN  [array |-> [id |-> id, type |-> BuilderType(Builder), values |-> r.val],
         g |-> r.g]

\* main.cpp:63
num_rows == MaxRows

\* mutant: the float column generated before the int32 column
GenStatementsReordered ==
    << [key |-> "float",  Builder |-> "FloatBuilder",  func |-> "float"],
       [key |-> "int32",  Builder |-> "Int32Builder",  func |-> "int32"],
       [key |-> "int64",  Builder |-> "Int64Builder",  func |-> "int64"],
       [key |-> "string", Builder |-> "StringBuilder", func |-> "string"],
       [key |-> "binary", Builder |-> "BinaryBuilder", func |-> "binary"] >>

\* main.cpp:67-85: the five generation statements of main, in program order
GenStatements ==
    << [key |-> "int32",  Builder |-> "Int32Builder",  func |-> "int32"],
       [key |-> "float",  Builder |-> "FloatBuilder",  func |-> "float"],
       [key |-> "int64",  Builder |-> "Int64Builder",  func |-> "int64"],
       [key |-> "string", Builder |-> "StringBuilder", func |-> "string"],
       [key |-> "binary", Builder |-> "BinaryBuilder", func |-> "binary"] >>

----------------------------------------------------------------------------
(* The specification table (main.cpp:26-31, 88-121) *)

ColumnSpec(encoding_name, encoding, type_name, arrow_type) ==
    [encoding_name |-> encoding_name, encoding |-> encoding,
     type_name |-> type_name, arrow_type |-> arrow_type]

\* main.cpp:89-93
PlainSpecs ==
    << ColumnSpec("PLAIN", "PLAIN", "string", "utf8"),
       ColumnSpec("PLAIN", "PLAIN", "float", "float32"),
       ColumnSpec("PLAIN", "PLAIN", "int32", "int32"),
       ColumnSpec("PLAIN", "PLAIN", "binary", "binary") >>

\* main.cpp:95-100
PlainDictionarySpecs ==
    << ColumnSpec("PLAIN_DICTIONARY", "PLAIN_DICTIONARY", "string", "utf8"),
       ColumnSpec("PLAIN_DICTIONARY", "PLAIN_DICTIONARY", "float", "float32"),
       ColumnSpec("PLAIN_DICTIONARY", "PLAIN_DICTIONARY", "int32", "int32"),
       ColumnSpec("PLAIN_DICTIONARY", "PLAIN_DICTIONARY", "int64", "int64"),
       ColumnSpec("PLAIN_DICTIONARY", "PLAIN_DICTIONARY", "binary", "binary") >>

\* main.cpp:102-106
RleDictionarySpecs ==
    << ColumnSpec("RLE_DICTIONARY", "RLE_DICTIONARY", "string", "utf8"),
       ColumnSpec("RLE_DICTIONARY", "RLE_DICTIONARY", "float", "float32"),
       ColumnSpec("RLE_DICTIONARY", "RLE_DICTIONARY", "int32", "int32"),
       ColumnSpec("RLE_DICTIONARY", "RLE_DICTIONARY", "int64", "int64"),
       ColumnSpec("RLE_DICTIONARY", "RLE_DICTIONARY", "binary", "binary") >>

\* main.cpp:108-112
RleSpecs ==
    << ColumnSpec("RLE", "RLE", "string", "utf8"),
       ColumnSpec("RLE", "RLE", "float", "float32"),
       ColumnSpec("RLE", "RLE", "int32", "int32"),
       ColumnSpec("RLE", "RLE", "int64", "int64"),
       ColumnSpec("RLE", "RLE", "binary", "binary") >>

\* mutant: a float entry added to the delta-binary-packed group
DeltaBinaryPackedSpecsWithFloat ==
    << ColumnSpec("DELTA_BINARY_PACKED", "DELTA_BINARY_PACKED", "float", "float32"),
       ColumnSpec("DELTA_BINARY_PACKED", "DELTA_BINARY_PACKED", "int32", "int32"),
       ColumnSpec("DELTA_BINARY_PACKED", "DELTA_BINARY_PACKED", "int64", "int64") >>

\* main.cpp:115-117
DeltaBinaryPackedSpecs ==
    << ColumnSpec("DELTA_BINARY_PACKED", "DELTA_BINARY_PACKED", "int32", "int32"),
       ColumnSpec("DELTA_BINARY_PACKED", "DELTA_BINARY_PACKED", "int64", "int64") >>

\* main.cpp:119-120
DeltaLengthByteArraySpecs ==
    << ColumnSpec("DELTA_LENGTH_BYTE_ARRAY", "DELTA_LENGTH_BYTE_ARRAY", "binary", "binary") >>

\* main.cpp:88-121: the vector, its groups in source order
specs ==
    PlainSpecs \o PlainDictionarySpecs \o RleDictionarySpecs \o RleSpecs
    \o DeltaBinaryPackedSpecs \o DeltaLengthByteArraySpecs

\* the specification the loop of main is at (main.cpp:124)
spec == specs[si]

----------------------------------------------------------------------------
(* write_parquet's pure parts (main.cpp:35-52) *)

\* main.cpp:35-37: field("data", arrow_type), schema({field}), Table::Make;
\* Table::Make takes the row count from the column and checks no types
MakeTable(s, array) ==
    [schema   |-> << [name |-> "data", type |-> s.arrow_type] >>,
     columns  |-> << array >>,
     num_rows |-> Len(array.values)]

\* main.cpp:39: the directory's name under data/
DirectoryOf(s) == s.encoding_name

\* mutant: the type name left out of the file's name
FilenameOfEncodingOnly(s) ==
    "data/" \o s.encoding_name \o "/" \o "data" \o ".parquet"

\* main.cpp:40
FilenameOf(s) ==
    "data/" \o s.encoding_name \o "/" \o s.type_name \o ".parquet"

\* parquet::WriterProperties::Builder's three calls used by write_parquet
enable_dictionary(b) == [b EXCEPT !.dictionary = "enabled"]

disable_dictionary(b) == [b EXCEPT !.dictionary = "disabled"]

encoding(b, path, e) ==
    [b EXCEPT !.encodings = {c \in @ : c[1] # path} \cup {<<path, e>>}]

\* mutant: one builder kept across calls (a static local), so that what
\* was set for the previous file is still set
WriterPropertiesBuilderKept == props

\* main.cpp:42: a Builder as constructed, nothing set by the program
WriterPropertiesBuilder == [dictionary |-> "default", encodings |-> {}]

\* main.cpp:43-52: the three-way branch on the builder, then build()
BuildProperties(builder, s) ==
    IF s.encoding = "PLAIN_DICTIONARY" \/ s.encoding = "RLE_DICTIONARY"
    THEN enable_dictionary(builder)
    ELSE IF s.encoding = "DELTA_BINARY_PACKED"
            \/ s.encoding = "DELTA_LENGTH_BYTE_ARRAY"
         THEN encoding(disable_dictionary(builder), "data", s.encoding)
         ELSE encoding(builder, "data", s.encoding)

\* main.cpp:57: the chunk_size argument of WriteTable
row_group_size == 1024

----------------------------------------------------------------------------
(* The file system and the writer library, by contract *)

NoStream == "none"

EmptyMap == [x \in {} |-> x]

\* write_parquet's locals while main is not inside it
NoTable == [schema |-> <<>>, columns |-> <<>>, num_rows |-> 0]

NoProperties == [dictionary |-> "default", encodings |-> {}]

\* a file that was there before the program ran, with content of its own
StaleFile == [kind |-> "stale"]

\* a file as FileOutputStream::Open leaves it: created or truncated
EmptyFile == [kind |-> "empty"]

\* a file a failed WriteTable leaves: some prefix of the bytes
PartialFile == [kind |-> "partial"]

\* main.cpp:56-57: the file a successful WriteTable leaves, a function of
\* the table's schema and values, the properties and the row-group size
WrittenFile(t, p, chunk_size) ==
    [kind           |-> "parquet",
     schema         |-> t.schema,
     column_type    |-> t.columns[1].type,
     values         |-> t.columns[1].values,
     num_rows       |-> t.num_rows,
     row_group_size |-> chunk_size,
     properties     |-> p]

Put(f, k, v) == (k :> v) @@ f

----------------------------------------------------------------------------
(* Control: how a step of write_parquet leaves the loop of main *)

\* main.cpp:124-128: write_parquet returned; the loop takes the next
\* specification, or main returns 0 after the last
ReturnToLoop ==
    /\ si' = si + 1
    /\ pc' = IF si = Len(specs) THEN "done" ELSE "call"
    /\ exit_code' = IF si = Len(specs) THEN "0" ELSE exit_code

\* mutant: the exception caught in the loop, which goes on to the next
\* specification
CatchAndContinue ==
    /\ si' = si + 1
    /\ pc' = IF si = Len(specs) THEN "done" ELSE "call"
    /\ exit_code' = IF si = Len(specs) THEN "0" ELSE exit_code

\* an exception thrown inside write_parquet (main.cpp:39, 55, 56) or by
\* base_data.at (main.cpp:125): main has no handler, std::terminate aborts
Throw ==
    /\ pc' = "aborted"
    /\ exit_code' = "SIGABRT"
    /\ si' = si

\* history: one entry per file-system or stream call: the specification's
\* index, the call, its result and the path it was made on
Log(op, result, path) == oplog' = Append(oplog, <<si, op, result, path>>)

----------------------------------------------------------------------------
(* The states the program starts in *)

EncodingNames == {specs[i].encoding_name : i \in DOMAIN specs}

\* the files of an earlier generation that lie under the directories `have`
LeftOver(have) ==
    LET there == {i \in DOMAIN specs : DirectoryOf(specs[i]) \in have}
    IN  [p \in {FilenameOf(specs[i]) : i \in there} |-> StaleFile]

\* The process as started: the globals constructed (main.cpp:13), main not
\* yet entered.  The working directory is any of: no data/; data/ with any
\* set of encoding directories, empty or holding files of an earlier run.
Init ==
    /\ prev = NoRun
    /\ pc = "gen"
    /\ gi = 1
    /\ si = 1
    /\ rng = [state |-> Seed, count |-> 0]
    /\ drawlog = <<>>
    /\ base_data = EmptyMap
    /\ table = NoTable
    /\ filename = ""
    /\ props = NoProperties
    /\ outfile = NoStream
    /\ data_dir \in BOOLEAN
    /\ dirs \in (IF data_dir THEN SUBSET EncodingNames ELSE {{}})
    /\ files \in {EmptyMap, LeftOver(dirs)}
    /\ out = <<>>
    /\ exit_code = "running"
    /\ oplog = <<>>
    /\ passed = <<>>

----------------------------------------------------------------------------
(* The steps of main and write_parquet *)

\* main.cpp:67-85: one statement base_data[key] = generate_array<Builder>(...)
Generate ==
    /\ pc = "gen"
    /\ LET stmt == GenStatements[gi]
           r    == generate_array(stmt.Builder, stmt.func, num_rows, gi, rng)
       IN  /\ base_data' = Put(base_data, stmt.key, r.array)
           /\ rng' = r.g
           /\ drawlog' = Append(drawlog, [who   |-> stmt.key,
                                          first |-> rng.count + 1,
                                          last  |-> r.g.count])
    /\ gi' = gi + 1
    /\ pc' = IF gi = Len(GenStatements) THEN "call" ELSE "gen"
    /\ UNCHANGED <<si, table, filename, props, outfile, data_dir, dirs, files,
                   out, exit_code, oplog, passed, prev>>

\* mutant: the column generated anew for each specification, inside the loop
CallWriteParquetRegenerating ==
    /\ pc = "call"
    /\ LET k    == CHOOSE j \in DOMAIN GenStatements :
                       GenStatements[j].key = spec.type_name
           stmt == GenStatements[k]
           r    == generate_array(stmt.Builder, stmt.func, num_rows, gi + si, rng)
       IN  /\ base_data' = Put(base_data, stmt.key, r.array)
           /\ rng' = r.g
           /\ table' = MakeTable(spec, r.array)
           /\ passed' = Append(passed, r.array)
    /\ pc' = "mkdir"
    /\ UNCHANGED <<gi, si, drawlog, filename, props, outfile, data_dir, dirs,
                   files, out, exit_code, oplog, prev>>

\* main.cpp:125 and 35-37: base_data.at(spec.type_name) (std::out_of_range
\* when the key is missing), the call, and the table built from the array
CallWriteParquet ==
    /\ pc = "call"
    /\ IF spec.type_name \in DOMAIN base_data
       THEN /\ table' = MakeTable(spec, base_data[spec.type_name])
            /\ passed' = Append(passed, base_data[spec.type_name])
            /\ pc' = "mkdir"
            /\ UNCHANGED <<si, exit_code>>
       ELSE /\ Throw
            /\ UNCHANGED <<table, passed>>
    /\ UNCHANGED <<gi, rng, drawlog, base_data, filename, props, outfile,
                   data_dir, dirs, files, out, oplog, prev>>

\* main.cpp:39-40: fs::create_directory("data/" + encoding_name), the
\* throwing overload.  It makes one directory: it returns false when the
\* directory exists, and throws filesystem_error when the parent is missing.
CreateDirectory ==
    /\ pc = "mkdir"
    /\ IF data_dir
       THEN /\ dirs' = dirs \cup {DirectoryOf(spec)}
            /\ Log("mkdir", IF DirectoryOf(spec) \in dirs THEN "exists" ELSE "created",
                   "data/" \o DirectoryOf(spec))
            /\ filename' = FilenameOf(spec)
            /\ pc' = "props"
            /\ UNCHANGED <<si, exit_code>>
       ELSE /\ Log("mkdir", "error", "data/" \o DirectoryOf(spec))
            /\ Throw
            /\ UNCHANGED <<dirs, filename>>
    /\ UNCHANGED <<gi, rng, drawlog, base_data, table, props, outfile,
                   data_dir, files, out, passed, prev>>

\* main.cpp:42-52
BuildWriterProperties ==
    /\ pc = "props"
    /\ props' = BuildProperties(WriterPropertiesBuilder, spec)
    /\ pc' = "open"
    /\ UNCHANGED <<gi, si, rng, drawlog, base_data, table, filename, outfile,
                   data_dir, dirs, files, out, exit_code, oplog, passed, prev>>

\* main.cpp:54-55: FileOutputStream::Open(filename) succeeds: the file is
\* created, or truncated when it exists
OpenOutputStream ==
    /\ pc = "open"
    /\ files' = Put(files, filename, EmptyFile)
    /\ outfile' = filename
    /\ Log("open", "ok", filename)
    /\ pc' = "write"
    /\ UNCHANGED <<gi, si, rng, drawlog, base_data, table, filename, props,
                   data_dir, dirs, out, exit_code, passed, prev>>

\* main.cpp:55: Open returns an error, PARQUET_ASSIGN_OR_THROW throws
OpenOutputStreamFails ==
    /\ pc = "open"
    /\ Log("open", "error", filename)
    /\ Throw
    /\ UNCHANGED <<gi, rng, drawlog, base_data, table, filename, props, outfile,
                   data_dir, dirs, files, out, passed, prev>>

\* main.cpp:56-57: WriteTable succeeds
WriteTable ==
    /\ pc = "write"
    /\ files' = Put(files, outfile, WrittenFile(table, props, row_group_size))
    /\ Log("write", "ok", outfile)
    /\ pc' = "print"
    /\ UNCHANGED <<gi, si, rng, drawlog, base_data, table, filename, props,
                   outfile, data_dir, dirs, out, exit_code, passed, prev>>

\* mutant: the Status of WriteTable dropped, so that a failed write goes on
\* to the print
WriteTableFailsUnchecked ==
    /\ pc = "write"
    /\ \E left \in {EmptyFile, PartialFile} : files' = Put(files, outfile, left)
    /\ Log("write", "error", outfile)
    /\ pc' = "print"
    /\ UNCHANGED <<gi, si, rng, drawlog, base_data, table, filename, props,
                   outfile, data_dir, dirs, out, exit_code, passed, prev>>

\* main.cpp:56: WriteTable returns an error, PARQUET_THROW_NOT_OK throws;
\* the file keeps whatever reached it (nothing, or a prefix)
WriteTableFails ==
    /\ pc = "write"
    /\ \E left \in {EmptyFile, PartialFile} : files' = Put(files, outfile, left)
    /\ Log("write", "error", outfile)
    /\ Throw
    /\ UNCHANGED <<gi, rng, drawlog, base_data, table, filename, props, outfile,
                   data_dir, dirs, out, passed, prev>>

\* main.cpp:59-60: the line is printed, write_parquet returns (the stream
\* is released), and the loop goes on (main.cpp:124) or main returns 0
PrintWrote ==
    /\ pc = "print"
    /\ out' = Append(out, "Wrote " \o filename)
    /\ outfile' = NoStream
    /\ ReturnToLoop
    /\ UNCHANGED <<gi, rng, drawlog, base_data, table, filename, props,
                   data_dir, dirs, files, oplog, passed, prev>>

\* The program is started again in the working directory a complete run
\* left: a new process, with its globals constructed afresh (main.cpp:13).
Rerun ==
    /\ pc = "done"
    /\ prev' = [kind |-> "run", files |-> files, out |-> out,
                written |-> {oplog[k][4] : k \in {j \in DOMAIN oplog : oplog[j][2] = "write"}}]
    /\ pc' = "gen"
    /\ gi' = 1
    /\ si' = 1
    /\ rng' = [state |-> Seed, count |-> 0]
    /\ drawlog' = <<>>
    /\ base_data' = EmptyMap
    /\ table' = NoTable
    /\ filename' = ""
    /\ props' = NoProperties
    /\ outfile' = NoStream
    /\ out' = <<>>
    /\ exit_code' = "running"
    /\ oplog' = <<>>
    /\ passed' = <<>>
    /\ UNCHANGED <<data_dir, dirs, files>>

Next ==
    \/ Generate
    \/ CallWriteParquet
    \/ CreateDirectory
    \/ BuildWriterProperties
    \/ OpenOutputStream
    \/ OpenOutputStreamFails
    \/ WriteTable
    \/ WriteTableFails
    \/ PrintWrote

\* one run of the program
Spec == Init /\ [][Next]_vars

\* the program run again and again, each time after a complete run
SpecRerun == Init /\ [][Next \/ Rerun]_vars

----------------------------------------------------------------------------
(* Properties *)

\* the positions in oplog of the calls `op`, and of those that succeeded
Calls(op) == {k \in DOMAIN oplog : oplog[k][2] = op}

Succeeded(op) == {k \in Calls(op) : oplog[k][3] # "error"}

\* the path the i-th specification is to be written at
PathOfSpec(i) ==
    "data/" \o specs[i].encoding_name \o "/" \o specs[i].type_name \o ".parquet"

InWriteParquet == pc \in {"mkdir", "props", "open", "write", "print"}

DictionaryEncodings == {"PLAIN_DICTIONARY", "RLE_DICTIONARY"}

DeltaEncodings == {"DELTA_BINARY_PACKED", "DELTA_LENGTH_BYTE_ARRAY"}

\* C1: a failed directory creation, open or write of the k-th specification
\* aborts the run there: it is the last call made (no retry, nothing for a
\* later specification), no line is printed for the k-th or a later
\* specification, and the process does not end with exit code 0.
C1_AbortsAtFirstFailure ==
    /\ \A k \in DOMAIN oplog :
          oplog[k][3] = "error" =>
             /\ k = Len(oplog)
             /\ pc = "aborted"
             /\ exit_code = "SIGABRT"
             /\ si = oplog[k][1]
             /\ Len(out) = oplog[k][1] - 1
             /\ \A j \in DOMAIN oplog : oplog[j][1] <= oplog[k][1]
             /\ \A j \in 1..(k - 1) :
                   <<oplog[j][1], oplog[j][2]>> # <<oplog[k][1], oplog[k][2]>>
    /\ pc = "aborted" => exit_code # "0"
    /\ exit_code = "0" => \A k \in DOMAIN oplog : oplog[k][3] # "error"

\* C1 witness: the write of the 7th specification failed and the run stopped
\* there, six lines printed
C1_Witness ==
    /\ pc = "aborted"
    /\ oplog # <<>>
    /\ oplog[Len(oplog)] = <<7, "write", "error", "data/PLAIN_DICTIONARY/int32.parquet">>
    /\ Len(out) = 6

\* C2: the lines printed are "Wrote <path>" for a prefix of the table, in
\* table order; a specification's line is printed only after its file was
\* opened and written successfully; a run without failure prints 22 lines
\* and returns 0.
C2_WroteLinesFollowTable ==
    /\ Len(out) <= Len(specs)
    /\ \A i \in DOMAIN out :
          /\ out[i] = "Wrote " \o PathOfSpec(i)
          /\ \E a \in Succeeded("open"), b \in Succeeded("write") :
                /\ a < b
                /\ oplog[a] = <<i, "open", "ok", PathOfSpec(i)>>
                /\ oplog[b] = <<i, "write", "ok", PathOfSpec(i)>>
    /\ (pc = "done" \/ exit_code = "0") =>
          /\ pc = "done" /\ exit_code = "0"
          /\ Len(out) = 22
          /\ Len(specs) = 22
    /\ (pc \in {"done", "aborted"} /\ \A k \in DOMAIN oplog : oplog[k][3] # "error")
          => pc = "done"

\* C2 witness: a complete run, 22 lines printed
C2_Witness ==
    /\ pc = "done"
    /\ exit_code = "0"
    /\ Len(out) = 22
    /\ out[22] = "Wrote data/DELTA_LENGTH_BYTE_ARRAY/binary.parquet"

\* C3 (as claimed): for every specification and every initial working
\* directory, data/ absent or present, the directory creation succeeds and
\* data/<encoding-name>/ exists before the file is opened.
C3_DirectoryCreationAlwaysSucceeds ==
    /\ \A k \in Calls("mkdir") : oplog[k][3] \in {"created", "exists"}
    /\ pc \in {"props", "open", "write", "print"} =>
          data_dir /\ DirectoryOf(spec) \in dirs

\* C4: the properties built for a specification are those of the three-way
\* policy, exactly one branch applying, and nothing set for an earlier file
\* is carried over.
C4_WriterPropertiesPolicy ==
    /\ \A i \in DOMAIN specs :
          specs[i].encoding \in
             (DictionaryEncodings \cup DeltaEncodings \cup {"PLAIN", "RLE"})
    /\ pc \in {"open", "write", "print"} =>
          /\ spec.encoding \in DictionaryEncodings =>
                props = [dictionary |-> "enabled", encodings |-> {}]
          /\ spec.encoding \in DeltaEncodings =>
                props = [dictionary |-> "disabled",
                         encodings  |-> {<<"data", spec.encoding>>}]
          /\ spec.encoding \in {"PLAIN", "RLE"} =>
                props = [dictionary |-> "default",
                         encodings  |-> {<<"data", spec.encoding>>}]
    /\ \A k \in Succeeded("write") :
          LET e == specs[oplog[k][1]].encoding
              p == files[oplog[k][4]].properties
          IN  /\ p.dictionary = (IF e \in DictionaryEncodings THEN "enabled"
                                 ELSE IF e \in DeltaEncodings THEN "disabled"
                                 ELSE "default")
              /\ p.encodings = (IF e \in DictionaryEncodings THEN {}
                                ELSE {<<"data", e>>})

\* C4 witness: a dictionary specification's properties, built after the
\* four PLAIN files were written with an explicit column encoding
C4_Witness ==
    /\ pc = "open"
    /\ si = 5
    /\ spec.encoding = "PLAIN_DICTIONARY"
    /\ props = [dictionary |-> "enabled", encodings |-> {}]
    /\ files["data/PLAIN/binary.parquet"].properties.encodings = {<<"data", "PLAIN">>}

\* C5: for every specification the lookup by type_name finds a generated
\* column, and the table handed to the writer has the one field "data" of
\* the declared type, which is the type of the column, with num_rows rows.
C5_TableMatchesSpecification ==
    /\ pc # "gen" => \A i \in DOMAIN specs : specs[i].type_name \in DOMAIN base_data
    /\ InWriteParquet =>
          /\ table.schema = << [name |-> "data", type |-> spec.arrow_type] >>
          /\ Len(table.columns) = 1
          /\ table.columns[1].type = spec.arrow_type
          /\ table.columns[1] = base_data[spec.type_name]
          /\ table.num_rows = num_rows
          /\ Len(table.columns[1].values) = num_rows
    /\ \A k \in Succeeded("write") :
          LET f == files[oplog[k][4]]
          IN  /\ f.num_rows = num_rows
              /\ f.column_type = specs[oplog[k][1]].arrow_type
              /\ f.schema = << [name |-> "data", type |-> f.column_type] >>

\* C5 witness: the string column about to be written as a utf8 field
C5_Witness ==
    /\ pc = "write"
    /\ spec.type_name = "string"
    /\ table.columns[1].type = "utf8"
    /\ table.num_rows = num_rows
    /\ num_rows > 0

C7_SameInstance ==
    /\ \A a, b \in DOMAIN drawlog : drawlog[a].who = drawlog[b].who => a = b
    /\ pc # "gen" => DOMAIN base_data = {"int32", "float", "int64", "string", "binary"}
    /\ \A i \in DOMAIN passed : passed[i] = base_data[specs[i].type_name]
    /\ \A i, j \in DOMAIN passed :
          specs[i].type_name = specs[j].type_name =>
             passed[i].id = passed[j].id /\ passed[i].values = passed[j].values

\* a column once generated is never changed, and past the generation the
\* engine is never stepped
C7_Frame ==
    /\ \A t \in DOMAIN base_data : t \in DOMAIN base_data' /\ base_data'[t] = base_data[t]
    /\ pc # "gen" => base_data' = base_data /\ rng' = rng

\* C7: each typed column is generated once and never modified; two
\* specifications of one type get the same instance with the same values;
\* write_parquet leaves the five columns and the engine's state unchanged.
C7_ColumnsGeneratedOnceAndShared == []C7_SameInstance /\ [][C7_Frame]_vars

\* C7 witness: a complete run, the string column passed for the 1st and the
\* 5th specification
C7_Witness ==
    /\ pc = "done"
    /\ Len(passed) = 22
    /\ passed[1] = passed[5]
    /\ passed[1].type = "utf8"

\* C8: the engine is drawn from for int32, then float, then int64, then
\* string, then binary, each type's draws in one run of consecutive draws,
\* all of them before the first specification is processed and none after.
C8_DrawOrder ==
    LET Order == <<"int32", "float", "int64", "string", "binary">>
    IN  /\ Len(drawlog) <= 5
        /\ \A k \in DOMAIN drawlog :
              /\ drawlog[k].who = Order[k]
              /\ drawlog[k].first = (IF k = 1 THEN 1 ELSE drawlog[k - 1].last + 1)
              /\ drawlog[k].last - drawlog[k].first + 1 >= num_rows
              /\ Len(base_data[Order[k]].values) = num_rows
        /\ rng.count = (IF drawlog = <<>> THEN 0 ELSE drawlog[Len(drawlog)].last)
        /\ (pc # "gen" \/ passed # <<>> \/ oplog # <<>> \/ out # <<>>) =>
              Len(drawlog) = 5

\* C8 witness: the last specification written, the engine where the
\* generation of the binary column left it
C8_Witness ==
    /\ pc = "print"
    /\ si = 22
    /\ Len(drawlog) = 5
    /\ drawlog[5].who = "binary"
    /\ rng.count = drawlog[5].last

\* the file a successful write of the i-th specification leaves
FileOfSpec(i) ==
    WrittenFile(MakeTable(specs[i], base_data[specs[i].type_name]),
                BuildProperties(WriterPropertiesBuilder, specs[i]),
                row_group_size)

\* C9: the 22 specifications map to 22 distinct paths, each under the
\* directory named after its encoding; in a run each path is opened once, a
\* file written is not overwritten by a later specification, and a complete
\* run has written exactly the 22 files.
C9_OneFilePerSpecification ==
    /\ Len(specs) = 22
    /\ \A i, j \in DOMAIN specs :
          i # j => FilenameOf(specs[i]) # FilenameOf(specs[j])
    /\ \A i \in DOMAIN specs :
          /\ DirectoryOf(specs[i]) = specs[i].encoding
          /\ FilenameOf(specs[i]) = PathOfSpec(i)
    /\ \A a, b \in Calls("open") : a # b => oplog[a][4] # oplog[b][4]
    /\ \A a \in Calls("open") : oplog[a][4] = PathOfSpec(oplog[a][1])
    /\ \A k \in Succeeded("write") : files[oplog[k][4]] = FileOfSpec(oplog[k][1])
    /\ pc = "done" =>
          /\ Cardinality(Calls("open")) = 22
          /\ {oplog[k][4] : k \in Succeeded("write")} = {PathOfSpec(i) : i \in DOMAIN specs}
          /\ Cardinality({oplog[k][4] : k \in Succeeded("write")}) = 22
          /\ \A i \in DOMAIN specs : files[PathOfSpec(i)] = FileOfSpec(i)

\* C9 witness: a complete run, 22 parquet files on disk
C9_Witness ==
    /\ pc = "done"
    /\ Cardinality({p \in DOMAIN files : files[p].kind = "parquet"}) = 22
    /\ files["data/PLAIN/string.parquet"].column_type = "utf8"

\* C10: the table pairs DELTA_BINARY_PACKED with int32 and int64 only and
\* DELTA_LENGTH_BYTE_ARRAY with binary only, so no float or string column
\* is written under either directory.
C10_DeltaEncodingsTypes ==
    /\ \A i \in DOMAIN specs :
          /\ specs[i].encoding = "DELTA_BINARY_PACKED" =>
                specs[i].type_name \in {"int32", "int64"}
          /\ specs[i].encoding = "DELTA_LENGTH_BYTE_ARRAY" =>
                specs[i].type_name = "binary"
    /\ {<<specs[i].encoding_name, specs[i].type_name>> :
           i \in {j \in DOMAIN specs : specs[j].encoding_name \in DeltaEncodings}}
         = { <<"DELTA_BINARY_PACKED", "int32">>,
             <<"DELTA_BINARY_PACKED", "int64">>,
             <<"DELTA_LENGTH_BYTE_ARRAY", "binary">> }
    /\ (pc \in {"open", "write", "print"} /\ DirectoryOf(spec) \in DeltaEncodings) =>
          table.columns[1].type \notin {"float32", "utf8"}
    /\ \A k \in Succeeded("write") :
          DirectoryOf(specs[oplog[k][1]]) \in DeltaEncodings =>
             files[oplog[k][4]].column_type \in {"int32", "int64", "binary"}

\* C10 witness: the three delta files written
C10_Witness ==
    /\ pc = "done"
    /\ files["data/DELTA_BINARY_PACKED/int32.parquet"].column_type = "int32"
    /\ files["data/DELTA_BINARY_PACKED/int64.parquet"].column_type = "int64"
    /\ files["data/DELTA_LENGTH_BYTE_ARRAY/binary.parquet"].column_type = "binary"

====
